---- MODULE Spec2Model ----
(***************************************************************************)
(* Filter engine, repository facade and view engine of supabase-js:        *)
(*   src/utils/filter-parser.js     applyFilter, applyCondition,           *)
(*                                  mapOperator, formatValue               *)
(*   src/core/data-repository.js    DataRepository                         *)
(*   src/controllers/data-controller.js (view-engine.js part)  ViewEngine  *)
(*   src/controllers/data-controller.js, router.js, request-parser.js     *)
(*                                  the routes of a record                 *)
(*   src/app.js, supabase-client.js the start of the process               *)
(*                                                                         *)
(* A query is the sequence of builder calls made on it so far; the         *)
(* execution of a query (await) is logged as a call of its own, so the     *)
(* order of builder calls and executions is part of the state.             *)
(***************************************************************************)
EXTENDS Integers, Sequences, FiniteSets, TLC

VARIABLES
  pc,                \* where the current operation stands
  op,                \* the operation called
  input,             \* its arguments
  log,               \* the builder calls and executions made so far
  result,            \* its outcome
  answers,           \* the answers of the data service it has received
  supabaseInstance,  \* supabase-client.js: the process-wide client handle
  requireStack,      \* the modules being loaded, innermost last
  requireCache,      \* the modules whose loading has begun
  env                \* process.env

vars ==
  <<pc, op, input, log, result, answers, supabaseInstance, requireStack, requireCache, env>>
\* the state of the process, which no operation of a running server changes
process == <<supabaseInstance, requireStack, requireCache, env>>

(***************************************************************************)
(* Bounds                                                                  *)
(***************************************************************************)
MaxChildren == 2
MaxPage == 3
MaxPageSize == 3

(***************************************************************************)
(* JavaScript values. Every value has the same shape so that any two can   *)
(* be compared: t is the type tag, s the text of a scalar, items the       *)
(* elements of an array.                                                   *)
(***************************************************************************)
StrV(x) == [t |-> "string", s |-> x, items |-> <<>>]
NumV(x) == [t |-> "number", s |-> x, items |-> <<>>]
BoolV(b) == [t |-> "boolean", s |-> IF b THEN "true" ELSE "false", items |-> <<>>]
NullV == [t |-> "null", s |-> "", items |-> <<>>]
UndefV == [t |-> "undefined", s |-> "", items |-> <<>>]
ArrV(xs) == [t |-> "array", s |-> "", items |-> xs]

\* String.prototype.toUpperCase on the strings of the model
toUpperCase(s) ==
  CASE s = "and" -> "AND"
    [] s = "And" -> "AND"
    [] s = "or" -> "OR"
    [] s = "Or" -> "OR"
    [] s = "xor" -> "XOR"
    [] s = "in" -> "IN"
    [] s = "In" -> "IN"
    [] s = "is" -> "IS"
    [] s = "is not" -> "IS NOT"
    [] s = "is null" -> "IS NULL"
    [] s = "like" -> "LIKE"
    [] s = "between" -> "BETWEEN"
    [] OTHER -> s

\* String.prototype.toLowerCase on the strings of the model
toLowerCase(s) ==
  CASE s = "True" -> "true"
    [] s = "TRUE" -> "true"
    [] s = "False" -> "false"
    [] s = "FALSE" -> "false"
    [] s = "LEFT" -> "left"
    [] s = "Left" -> "left"
    [] s = "INNER" -> "inner"
    [] s = "Inner" -> "inner"
    [] s = "RIGHT" -> "right"
    [] s = "Right" -> "right"
    [] s = "OUTER" -> "outer"
    [] OTHER -> s

(***************************************************************************)
(* Errors                                                                  *)
(***************************************************************************)
NoError == [name |-> "", message |-> "", statusCode |-> 0, context |-> ""]
AppError(message, statusCode, context) ==
  [name |-> "AppError", message |-> message, statusCode |-> statusCode, context |-> context]
\* a runtime error of the language (reading a property of undefined or null)
TypeError == [name |-> "TypeError", message |-> "", statusCode |-> 0, context |-> ""]

(***************************************************************************)
(* Builder calls. Every call has the same shape: m the method, s1 and s2   *)
(* its text arguments, val its value argument, n1 and n2 its numbers.      *)
(***************************************************************************)
Call(m, s1, s2, val, n1, n2) ==
  [m |-> m, s1 |-> s1, s2 |-> s2, val |-> val, n1 |-> n1, n2 |-> n2]
FieldCall(m, field, val) == Call(m, field, "", val, 0, 0)
TextCall(m, s1) == Call(m, s1, "", UndefV, 0, 0)
NotCall(field, val) == Call("not", field, "is", val, 0, 0)
RangeCall(from, to) == Call("range", "", "", UndefV, from, to)
OrderCall(column, ascending) == Call("order", column, "", BoolV(ascending), 0, 0)
\* the execution of the query against the data service (await query)
Await == Call("await", "", "", UndefV, 0, 0)

(***************************************************************************)
(* Filter nodes. A node is a JavaScript object: an absent property is      *)
(* Undef, isNull says that the node is null, isArray says that `filters`   *)
(* is an array.                                                            *)
(***************************************************************************)
Undef == "<undefined>"
Truthy(s) == s # Undef /\ s # ""

Condition(field, operator, value) ==
  [isNull |-> FALSE, field |-> field, operator |-> operator, value |-> value,
   logic |-> Undef, isArray |-> FALSE, filters |-> <<>>]
Group(logic, filters) ==
  [isNull |-> FALSE, field |-> Undef, operator |-> Undef, value |-> UndefV,
   logic |-> logic, isArray |-> TRUE, filters |-> filters]
NullNode ==
  [isNull |-> TRUE, field |-> Undef, operator |-> Undef, value |-> UndefV,
   logic |-> Undef, isArray |-> FALSE, filters |-> <<>>]
\* the object {}: neither a Condition nor a Group
EmptyObject ==
  [isNull |-> FALSE, field |-> Undef, operator |-> Undef, value |-> UndefV,
   logic |-> Undef, isArray |-> FALSE, filters |-> <<>>]

IsCondition(n) == ~n.isNull /\ Truthy(n.field) /\ Truthy(n.operator)
IsGroup(n) == ~n.isNull /\ ~IsCondition(n) /\ Truthy(n.logic) /\ n.isArray

(***************************************************************************)
(* filter-parser.js                                                        *)
(***************************************************************************)
Formatted(s) == [s |-> s, ok |-> TRUE]
\* the evaluation threw a TypeError
Threw == [s |-> "", ok |-> FALSE]

RECURSIVE formatValue(_)
RECURSIVE formatItems(_, _)
\* value.map(formatValue).join(','), from element i on
formatItems(items, i) ==
  IF i > Len(items) THEN Formatted("")
  ELSE LET head == formatValue(items[i])
           rest == formatItems(items, i + 1)
       IN IF ~head.ok \/ ~rest.ok THEN Threw
          ELSE Formatted(head.s \o (IF i < Len(items) THEN "," ELSE "") \o rest.s)

formatValue(value) ==
  IF value.t = "null" THEN Formatted("null")
  ELSE IF value.t = "string" THEN Formatted("\"" \o value.s \o "\"")
  ELSE IF value.t = "boolean" THEN Formatted(value.s)
  ELSE IF value.t = "array"
    THEN LET inner == formatItems(value.items, 1)
         IN IF inner.ok THEN Formatted("(" \o inner.s \o ")") ELSE Threw
  ELSE IF value.t = "undefined" THEN Threw
  ELSE Formatted(value.s)

OperatorMap(o) ==
  CASE o = "=" -> "eq"
    [] o = "<>" -> "neq"
    [] o = "!=" -> "neq"
    [] o = ">" -> "gt"
    [] o = ">=" -> "gte"
    [] o = "<" -> "lt"
    [] o = "<=" -> "lte"
    [] o = "LIKE" -> "like"
    [] o = "ILIKE" -> "ilike"
    [] o = "IN" -> "in"
    [] o = "IS" -> "is"
    [] o = "IS NOT" -> "not.is"
    [] o = "IS NULL" -> "is"
    [] o = "IS NOT NULL" -> "not.is"
    [] OTHER -> Undef

\* mapOperator without its table: the operator is handed back as it came
mapOperatorUnmapped(operator) ==
  IF operator = Undef THEN Threw ELSE Formatted(operator)

mapOperator(operator) ==
  IF operator = Undef THEN Threw
  ELSE IF OperatorMap(toUpperCase(operator)) # Undef
    THEN Formatted(OperatorMap(toUpperCase(operator)))
  ELSE Formatted(operator)

\* `${f.field}.${mapOperator(f.operator)}.${formatValue(f.value)}`
encodeCondition(f) ==
  IF f.isNull THEN Threw
  ELSE LET token == mapOperator(f.operator)
           text == formatValue(f.value)
       IN IF ~token.ok \/ ~text.ok THEN Threw
          ELSE Formatted((IF f.field = Undef THEN "undefined" ELSE f.field)
                         \o "." \o token.s \o "." \o text.s)

RECURSIVE joinEncoded(_, _)
\* filters.map(encodeCondition).join(','), from element i on
joinEncoded(filters, i) ==
  IF i > Len(filters) THEN Formatted("")
  ELSE LET head == encodeCondition(filters[i])
           rest == joinEncoded(filters, i + 1)
       IN IF ~head.ok \/ ~rest.ok THEN Threw
          ELSE Formatted(head.s \o (IF i < Len(filters) THEN "," ELSE "") \o rest.s)

\* a callback that encodes a nested AND group as and(...)
encodeSubFilterByLogic(subFilter) ==
  IF subFilter.isNull THEN Threw
  ELSE IF Truthy(subFilter.field) /\ Truthy(subFilter.operator)
    THEN encodeCondition(subFilter)
  ELSE IF ~subFilter.isArray THEN Threw
  ELSE LET inner == joinEncoded(subFilter.filters, 1)
       IN IF inner.ok /\ subFilter.logic = "AND" THEN Formatted("and(" \o inner.s \o ")")
          ELSE inner

\* the callback of filters.map in the OR branch of applyFilter
encodeSubFilter(subFilter) ==
  IF subFilter.isNull THEN Threw
  ELSE IF Truthy(subFilter.field) /\ Truthy(subFilter.operator)
    THEN encodeCondition(subFilter)
  ELSE IF ~subFilter.isArray THEN Threw
  ELSE joinEncoded(subFilter.filters, 1)

RECURSIVE encodeOr(_, _)
\* filters.map(subFilter => ...).join(','), from element i on
encodeOr(filters, i) ==
  IF i > Len(filters) THEN Formatted("")
  ELSE LET head == encodeSubFilter(filters[i])
           rest == encodeOr(filters, i + 1)
       IN IF ~head.ok \/ ~rest.ok THEN Threw
          ELSE Formatted(head.s \o (IF i < Len(filters) THEN "," ELSE "") \o rest.s)

\* the outcome of a function that returns a query or throws
Returned(query) == [q |-> query, err |-> NoError]
Thrown(query, err) == [q |-> query, err |-> err]
Failed(r) == r.err # NoError

UnsupportedOperator(operator) ==
  AppError("Unsupported operator: " \o operator, 400, "Filter Parser")
UnsupportedOperatorValue(operator) ==
  AppError(operator \o " operator only supports null values", 400, "Filter Parser")
UnsupportedLogic(logic) ==
  AppError("Unsupported logic operator: " \o logic, 400, "Filter Parser")
InvalidFilterStructure == AppError("Invalid filter structure", 400, "Filter Parser")

\* the coercion at the head of applyCondition
processValue(value) ==
  IF value.t = "string" /\ (toLowerCase(value.s) = "true" \/ toLowerCase(value.s) = "false")
  THEN BoolV(toLowerCase(value.s) = "true")
  ELSE value

applyCondition(query, condition) ==
  LET field == condition.field
      operator == condition.operator
      processedValue == processValue(condition.value)
      o == toUpperCase(operator)
  IN CASE o = "=" -> Returned(Append(query, FieldCall("eq", field, processedValue)))
       [] o \in {"<>", "!="} -> Returned(Append(query, FieldCall("neq", field, processedValue)))
       [] o = ">" -> Returned(Append(query, FieldCall("gt", field, processedValue)))
       [] o = ">=" -> Returned(Append(query, FieldCall("gte", field, processedValue)))
       [] o = "<" -> Returned(Append(query, FieldCall("lt", field, processedValue)))
       [] o = "<=" -> Returned(Append(query, FieldCall("lte", field, processedValue)))
       [] o = "LIKE" -> Returned(Append(query, FieldCall("like", field, processedValue)))
       [] o = "ILIKE" -> Returned(Append(query, FieldCall("ilike", field, processedValue)))
       [] o = "IN" ->
            Returned(Append(query, FieldCall("in", field,
              IF processedValue.t = "array" THEN processedValue
              ELSE ArrV(<<processedValue>>))))
       [] o = "IS NULL" -> Returned(Append(query, FieldCall("is", field, NullV)))
       [] o = "IS NOT NULL" -> Returned(Append(query, NotCall(field, NullV)))
       [] o = "IS" ->
            IF processedValue.t = "null"
            THEN Returned(Append(query, FieldCall("is", field, NullV)))
            ELSE Thrown(query, UnsupportedOperatorValue("IS"))
       [] o = "IS NOT" ->
            IF processedValue.t = "null"
            THEN Returned(Append(query, NotCall(field, NullV)))
            ELSE Thrown(query, UnsupportedOperatorValue("IS NOT"))
       [] OTHER -> Thrown(query, UnsupportedOperator(operator))

\* the OR branch of applyFilter: one call of query.or with the joined text
applyOr(query, filters) ==
  LET text == encodeOr(filters, 1)
  IN IF text.ok THEN Returned(Append(query, TextCall("or", text.s)))
     ELSE Thrown(query, TypeError)

RECURSIVE applyFilter(_, _)
RECURSIVE applyAnd(_, _, _)
RECURSIVE applyAndUnthreaded(_, _, _)
\* the AND loop with every child applied to the query the group was given
\* instead of the query returned by the previous child
applyAndUnthreaded(resultQuery, filters, i) ==
  IF i > Len(filters) THEN Returned(resultQuery)
  ELSE LET r == applyFilter(resultQuery, filters[i])
       IN IF Failed(r) \/ i = Len(filters) THEN r
          ELSE applyAndUnthreaded(resultQuery, filters, i + 1)

\* the loop of the AND branch of applyFilter, from element i on
applyAnd(resultQuery, filters, i) ==
  IF i > Len(filters) THEN Returned(resultQuery)
  ELSE LET r == applyFilter(resultQuery, filters[i])
       IN IF Failed(r) THEN r ELSE applyAnd(r.q, filters, i + 1)

\* applyFilter without the shortcut for a group of one child
applyFilterNoShortcut(query, filter) ==
  IF filter.isNull THEN Returned(query)
  ELSE IF Truthy(filter.field) /\ Truthy(filter.operator)
    THEN applyCondition(query, filter)
  ELSE IF Truthy(filter.logic) /\ filter.isArray
    THEN IF Len(filter.filters) = 0 THEN Returned(query)
         ELSE IF toUpperCase(filter.logic) = "AND" THEN applyAnd(query, filter.filters, 1)
         ELSE IF toUpperCase(filter.logic) = "OR" THEN applyOr(query, filter.filters)
         ELSE Thrown(query, UnsupportedLogic(filter.logic))
  ELSE Thrown(query, InvalidFilterStructure)

applyFilter(query, filter) ==
  IF filter.isNull THEN Returned(query)
  ELSE IF Truthy(filter.field) /\ Truthy(filter.operator)
    THEN applyCondition(query, filter)
  ELSE IF Truthy(filter.logic) /\ filter.isArray
    THEN IF Len(filter.filters) = 0 THEN Returned(query)
         ELSE IF Len(filter.filters) = 1 THEN applyFilter(query, filter.filters[1])
         ELSE IF toUpperCase(filter.logic) = "AND" THEN applyAnd(query, filter.filters, 1)
         ELSE IF toUpperCase(filter.logic) = "OR" THEN applyOr(query, filter.filters)
         ELSE Thrown(query, UnsupportedLogic(filter.logic))
  ELSE Thrown(query, InvalidFilterStructure)

(***************************************************************************)
(* The filter trees of the model                                           *)
(***************************************************************************)
\* sequences over S of length 0 .. n
RECURSIVE SeqsUpTo(_, _)
SeqsUpTo(S, n) ==
  IF n = 0 THEN {<<>>}
  ELSE LET shorter == SeqsUpTo(S, n - 1)
       IN shorter \cup {Append(x, e) : x \in {y \in shorter : Len(y) = n - 1}, e \in S}

Scalars == {StrV("admin"), StrV("True"), NumV("7")}
Logics == {"AND", "and", "OR", "Or", "xor"}

StatusActive == Condition("status", "=", StrV("active"))
RoleAdmin == Condition("role", "=", StrV("admin"))
RoleModerator == Condition("role", "=", StrV("moderator"))
StatusBetween == Condition("status", "between", StrV("active"))

\* the filter of the README: status = active AND (role = admin OR role = moderator)
ScenarioTree == Group("AND", <<StatusActive, Group("OR", <<RoleAdmin, RoleModerator>>)>>)

EqConditions == {StatusActive, RoleAdmin, RoleModerator, Condition("status", "=", StrV("True"))}
InConditions ==
  {Condition("role", o, v) : o \in {"IN", "in"}, v \in Scalars \cup {ArrV(<<x>>) : x \in Scalars}}
IsConditions == {Condition("role", "IS", NullV), Condition("role", "is", StrV("admin"))}
\* a Condition whose `value` property is absent
NoValueCondition == Condition("role", "=", UndefV)

Conditions == EqConditions \cup InConditions \cup IsConditions \cup {StatusBetween, NoValueCondition}
Leaves == Conditions \cup {NullNode, EmptyObject}

\* groups of the two role conditions
SmallFlat ==
  {Group(l, fs) : l \in {"AND", "OR", "xor"}, fs \in SeqsUpTo({RoleAdmin, RoleModerator}, MaxChildren)}
\* the children of the groups that have groups among their children
SmallKids == {StatusActive, StatusBetween} \cup SmallFlat
NestedLogics == {"AND", "OR", "xor"}

(***************************************************************************)
(* State                                                                   *)
(***************************************************************************)
\* a page or pageSize: absent, a number, the decimal text of a natural number
Absent == [t |-> "undefined", n |-> 0]
Number(n) == [t |-> "number", n |-> n]
Text(n) == [t |-> "string", n |-> n]
NoOptions == [page |-> Absent, pageSize |-> Absent, orderBy |-> Undef, ascending |-> UndefV]
NoView == [join_definition |-> <<>>, allowed_filters |-> <<>>, hasAllowed |-> FALSE, is_public |-> FALSE]
\* an HTTP request: method, the segments of the pathname between its
\* slashes, the content-type header and the text of the body
\* the parsed query string: page, pageSize, orderBy, ascending and filter
\* as the texts they come as (Undef when absent), rest the other parameters
Query(page, pageSize, orderBy, ascending, filter, rest) ==
  [page |-> page, pageSize |-> pageSize, orderBy |-> orderBy, ascending |-> ascending,
   filter |-> filter, rest |-> rest]
Request(method, path, contentType, data) ==
  [method |-> method, path |-> path, contentType |-> contentType, data |-> data,
   query |-> Query(Absent, Absent, Undef, Undef, Undef, <<>>)]
NoRequest == Request("", <<>>, "", "")
NoInput ==
  [table |-> "", filters |-> <<>>, filterObject |-> NullNode, options |-> NoOptions,
   viewDefinition |-> NoView, request |-> NoRequest]

Pending == [state |-> "pending", err |-> NoError, count |-> 0, statusCode |-> 0]
Resolved(count) == [state |-> "returned", err |-> NoError, count |-> count, statusCode |-> 0]
Rejected(err) == [state |-> "thrown", err |-> err, count |-> 0, statusCode |-> 0]
\* the HTTP response written by a controller or by handleHttpError
Responded(statusCode, err) ==
  [state |-> "responded", err |-> err, count |-> 0, statusCode |-> statusCode]

\* the query handed to applyFilter: supabase.from(tableName).select(columns)
BaseQuery(tableName, columns) == <<TextCall("from", tableName), TextCall("select", columns)>>

(***************************************************************************)
(* Startup: node src/app.js. The modules are loaded depth first in the     *)
(* order of their require statements; a module is entered in the require   *)
(* cache before its code runs, and its code after its requires runs when   *)
(* they have returned.                                                     *)
(***************************************************************************)
Error(message) == [name |-> "Error", message |-> message, statusCode |-> 0, context |-> ""]
ClientNotInitialized == Error("Supabase client not initialized")
MissingCredentials == Error("Missing Supabase credentials")

\* let supabaseInstance = null
null == [supabaseUrl |-> Undef, supabaseKey |-> Undef]
createClient(supabaseUrl, supabaseKey) == [supabaseUrl |-> supabaseUrl, supabaseKey |-> supabaseKey]

\* the local modules a module requires, in the order of its require statements
Requires(module) ==
  CASE module = "app.js" ->
         <<"server/http-server.js", "core/supabase-client.js", "utils/logger.js">>
    [] module = "server/http-server.js" -> <<"server/router.js", "utils/logger.js">>
    [] module = "server/router.js" ->
         <<"utils/error-handler.js", "utils/logger.js", "server/request-parser.js",
           "controllers/data-controller.js", "controllers/view-controller.js",
           "controllers/auth-controller.js">>
    [] module = "utils/error-handler.js" -> <<"utils/logger.js">>
    [] module = "server/request-parser.js" -> <<"utils/error-handler.js">>
    [] module = "controllers/data-controller.js" ->
         <<"core/data-repository.js", "utils/error-handler.js", "utils/error-handler.js",
           "utils/logger.js">>
    [] module = "core/data-repository.js" ->
         <<"core/supabase-client.js", "utils/logger.js", "utils/error-handler.js",
           "utils/filter-parser.js">>
    [] module = "core/supabase-client.js" -> <<"utils/logger.js">>
    [] module = "utils/filter-parser.js" -> <<"utils/error-handler.js">>
    [] module = "core/view-engine.js" ->
         <<"core/supabase-client.js", "core/data-repository.js", "utils/logger.js",
           "utils/error-handler.js">>
    [] module = "auth/auth-service.js" ->
         <<"core/supabase-client.js", "utils/logger.js", "utils/error-handler.js">>
    [] OTHER -> <<>>

Modules ==
  {"app.js", "server/http-server.js", "server/router.js", "utils/error-handler.js",
   "utils/logger.js", "server/request-parser.js", "controllers/data-controller.js",
   "controllers/view-controller.js", "controllers/auth-controller.js",
   "core/data-repository.js", "core/supabase-client.js", "utils/filter-parser.js",
   "core/view-engine.js", "auth/auth-service.js"}

\* the modules that export an instance made while they load:
\* module.exports = new DataRepository(), new ViewEngine(), new AuthService()
Singletons == {"core/data-repository.js", "core/view-engine.js", "auth/auth-service.js"}

Frame(module) == [module |-> module, next |-> 1]

\* getSupabaseClient(): the handle, or the error thrown
getSupabaseClient(instance) ==
  IF instance = null THEN [instance |-> null, err |-> ClientNotInitialized]
  ELSE [instance |-> instance, err |-> NoError]

\* initSupabase(supabaseUrl, supabaseKey): the new handle, or the error thrown
initSupabase(instance, supabaseUrl, supabaseKey) ==
  IF ~Truthy(supabaseUrl) \/ ~Truthy(supabaseKey)
  THEN [instance |-> instance, err |-> MissingCredentials]
  ELSE [instance |-> createClient(supabaseUrl, supabaseKey), err |-> NoError]

ProjectUrl == "https://yourproject.supabase.co"
ProjectKey == "your-supabase-key"
Environments ==
  {[SUPABASE_URL |-> u, SUPABASE_KEY |-> k] : u \in {Undef, "", ProjectUrl},
                                             k \in {Undef, "", ProjectKey}}

\* a process that has loaded its modules with the client initialised
Running ==
  /\ supabaseInstance = createClient(ProjectUrl, ProjectKey)
  /\ requireStack = <<>>
  /\ requireCache = Modules
  /\ env = [SUPABASE_URL |-> ProjectUrl, SUPABASE_KEY |-> ProjectKey]

(***************************************************************************)
(* applyFilter on its own: the filter tree is drawn by Init                *)
(***************************************************************************)
\* the call applyFilter(query, f) on the base query
Called(f) ==
  /\ pc = "called"
  /\ op = "applyFilter"
  /\ input = [NoInput EXCEPT !.table = "users", !.filterObject = f]
  /\ log = BaseQuery("users", "*")
  /\ result = Pending
  /\ answers = <<>>
  /\ Running

\* the trees: a leaf; a group of up to MaxChildren leaves; a group of one or
\* two children that may be groups; such a group as the only child, or the
\* first of two children, of an AND or OR group
FilterInit ==
  \/ \E f \in Leaves : Called(f)
  \/ \E l \in Logics, n \in 0..MaxChildren :
       \E fs \in [1..n -> Leaves] : Called(Group(l, fs))
  \/ \E l \in NestedLogics, a \in SmallKids : Called(Group(l, <<a>>))
  \/ \E l \in NestedLogics, a \in SmallKids, b \in SmallKids : Called(Group(l, <<a, b>>))
  \/ \E l \in {"AND", "OR"}, m \in NestedLogics, a \in SmallKids :
       \/ Called(Group(l, <<Group(m, <<a>>)>>))
       \/ Called(Group(l, <<Group(m, <<a>>), StatusActive>>))
  \/ \E l \in {"AND", "OR"}, m \in NestedLogics, a \in SmallKids, b \in SmallKids :
       \/ Called(Group(l, <<Group(m, <<a, b>>)>>))
       \/ Called(Group(l, <<Group(m, <<a, b>>), StatusActive>>))

ApplyFilter ==
  /\ pc = "called"
  /\ op = "applyFilter"
  /\ LET r == applyFilter(log, input.filterObject)
     IN /\ log' = r.q
        /\ result' = IF Failed(r) THEN Rejected(r.err) ELSE Resolved(0)
  /\ pc' = "done"
  /\ UNCHANGED <<op, input, answers>>
  /\ UNCHANGED process

FilterNext == ApplyFilter

FilterSpec == FilterInit /\ [][FilterNext]_vars

(***************************************************************************)
(* Query options. page and pageSize are JavaScript values: absent, a       *)
(* number, or the decimal text of a natural number.                        *)
(***************************************************************************)
\* a truthiness that takes negative numbers for false
IsTruthyPositive(x) ==
  CASE x.t = "undefined" -> FALSE
    [] x.t = "number" -> x.n > 0
    [] OTHER -> TRUE

\* truthiness of a page or pageSize (a decimal text is never empty)
IsTruthy(x) ==
  CASE x.t = "undefined" -> FALSE
    [] x.t = "number" -> x.n # 0
    [] OTHER -> TRUE

RECURSIVE Shift(_)
\* 10 to the number of decimal digits of the natural number n
Shift(n) == IF n < 10 THEN 10 ELSE 10 * Shift(n \div 10)

\* from + options.pageSize: an addition of numbers, a concatenation when
\* pageSize is text
Plus(from, pageSize) ==
  IF pageSize.t = "string"
  THEN IF from < 0 THEN 0 - ((0 - from) * Shift(pageSize.n) + pageSize.n)
       ELSE from * Shift(pageSize.n) + pageSize.n
  ELSE from + pageSize.n

\* the pagination step with the upper bound one row too far
paginateOffByOne(query, options) ==
  IF IsTruthy(options.page) /\ IsTruthy(options.pageSize)
  THEN LET from == (options.page.n - 1) * options.pageSize.n
           to == Plus(from, options.pageSize)
       IN Append(query, RangeCall(from, to))
  ELSE query

\* the pagination step of select, selectWithFilter and executeView
paginate(query, options) ==
  IF IsTruthy(options.page) /\ IsTruthy(options.pageSize)
  THEN LET from == (options.page.n - 1) * options.pageSize.n
           to == Plus(from, options.pageSize) - 1
       IN Append(query, RangeCall(from, to))
  ELSE query

\* the ordering step of select, selectWithFilter and executeView
order(query, options) ==
  IF Truthy(options.orderBy)
  THEN Append(query, OrderCall(options.orderBy, options.ascending # BoolV(FALSE)))
  ELSE query

RECURSIVE applyEqualityFilters(_, _, _)
\* Object.entries(filters).forEach(...) of select, update and delete, from
\* entry i on
applyEqualityFilters(query, filters, i) ==
  IF i > Len(filters) THEN query
  ELSE applyEqualityFilters(
         IF filters[i].value.t \notin {"undefined", "null"}
         THEN Append(query, FieldCall("eq", filters[i].key, filters[i].value))
         ELSE query,
         filters, i + 1)

(***************************************************************************)
(* data-repository.js: each operation builds its query and executes it;    *)
(* the outcome is the log of calls, or the error thrown while building.    *)
(***************************************************************************)
select(tableName, columns, filters, options) ==
  Returned(Append(order(paginate(applyEqualityFilters(BaseQuery(tableName, columns), filters, 1),
                                 options), options),
                  Await))

\* selectWithFilter executing the query a second time
selectWithFilterTwice(tableName, columns, filterObject, options) ==
  LET filtered == IF filterObject.isNull THEN Returned(BaseQuery(tableName, columns))
                  ELSE applyFilter(BaseQuery(tableName, columns), filterObject)
  IN IF Failed(filtered) THEN filtered
     ELSE Returned(order(paginate(filtered.q, options), options) \o <<Await, Await>>)

selectWithFilter(tableName, columns, filterObject, options) ==
  LET filtered == IF filterObject.isNull THEN Returned(BaseQuery(tableName, columns))
                  ELSE applyFilter(BaseQuery(tableName, columns), filterObject)
  IN IF Failed(filtered) THEN filtered
     ELSE Returned(Append(order(paginate(filtered.q, options), options), Await))

insert(tableName, data) ==
  Returned(<<TextCall("from", tableName), TextCall("insert", data), TextCall("select", Undef), Await>>)

update(tableName, data, filters) ==
  Returned(applyEqualityFilters(<<TextCall("from", tableName), TextCall("update", data)>>, filters, 1)
           \o <<TextCall("select", Undef), Await>>)

delete(tableName, filters) ==
  Returned(applyEqualityFilters(<<TextCall("from", tableName), TextCall("delete", Undef)>>, filters, 1)
           \o <<TextCall("select", Undef), Await>>)

\* what the handlers do with the { data, error, count } of the execution
DatabaseError(message) == AppError(message, 400, "Database")
\* a handler that returns { data, count } without looking at the error
settleUnchecked(response, context) == Resolved(response.count)

settle(response, context) ==
  IF response.error # "" THEN Rejected(AppError(response.error, 400, context))
  ELSE Resolved(response.count)

(***************************************************************************)
(* view-engine.js                                                          *)
(***************************************************************************)
JoinSpec(fromTable, fromField, joinType, toTable, toField) ==
  [fromTable |-> fromTable, fromField |-> fromField, joinType |-> joinType,
   toTable |-> toTable, toField |-> toField]
ViewDefinition(joins, hasAllowed, allowed, isPublic) ==
  [join_definition |-> joins, allowed_filters |-> allowed, hasAllowed |-> hasAllowed,
   is_public |-> isPublic]

RightJoinsNotSupported == AppError("Right joins not supported yet", 400, "View Engine")
UnknownJoinType(joinType) == AppError("Unknown join type: " \o joinType, 400, "View Engine")
ViewNotFound(viewId) == AppError("View definition not found: " \o viewId, 404, "View Engine")

RECURSIVE applyJoins(_, _, _)
RECURSIVE applyJoinsRightAsLeft(_, _, _)
\* the loop over joinDefinition attaching a right join like a left join
applyJoinsRightAsLeft(query, joinDefinition, i) ==
  IF i > Len(joinDefinition) THEN Returned(query)
  ELSE LET join == joinDefinition[i]
           joinTable == join.toTable
           joinCondition == join.fromTable \o "." \o join.fromField \o "="
                            \o joinTable \o "." \o join.toField
           joinType == toLowerCase(join.joinType)
       IN CASE joinType \in {"left", "right"} ->
                 applyJoinsRightAsLeft(query \o <<TextCall("select", "*, " \o joinTable \o "(*)"),
                                                  TextCall("on", joinCondition)>>,
                                       joinDefinition, i + 1)
            [] joinType = "inner" ->
                 applyJoinsRightAsLeft(query \o <<TextCall("select", "*, " \o joinTable \o "!inner(*)"),
                                                  TextCall("on", joinCondition)>>,
                                       joinDefinition, i + 1)
            [] OTHER -> Thrown(query, UnknownJoinType(join.joinType))

\* the loop over joinDefinition of executeView, from element i on
applyJoins(query, joinDefinition, i) ==
  IF i > Len(joinDefinition) THEN Returned(query)
  ELSE LET join == joinDefinition[i]
           joinTable == join.toTable
           joinCondition == join.fromTable \o "." \o join.fromField \o "="
                            \o joinTable \o "." \o join.toField
           joinType == toLowerCase(join.joinType)
       IN CASE joinType = "left" ->
                 applyJoins(query \o <<TextCall("select", "*, " \o joinTable \o "(*)"),
                                       TextCall("on", joinCondition)>>,
                            joinDefinition, i + 1)
            [] joinType = "right" -> Thrown(query, RightJoinsNotSupported)
            [] joinType = "inner" ->
                 applyJoins(query \o <<TextCall("select", "*, " \o joinTable \o "!inner(*)"),
                                       TextCall("on", joinCondition)>>,
                            joinDefinition, i + 1)
            [] OTHER -> Thrown(query, UnknownJoinType(join.joinType))

\* an allow-list test that also accepts the bare column of a "tasks.column"
IncludesColumn(list, x) == \E i \in DOMAIN list : list[i] = x \/ list[i] = "tasks." \o x

Includes(list, x) == \E i \in DOMAIN list : list[i] = x

RECURSIVE applyAllowedFilters(_, _, _, _)
RECURSIVE applyAllowedFiltersUnchecked(_, _, _, _)
\* the loop over the filters without the test of the allow-list
applyAllowedFiltersUnchecked(query, allowedFilters, filters, i) ==
  IF i > Len(filters) THEN query
  ELSE applyAllowedFiltersUnchecked(
         IF filters[i].value.t \notin {"undefined", "null"}
         THEN Append(query, FieldCall("eq", filters[i].key, filters[i].value))
         ELSE query,
         allowedFilters, filters, i + 1)

\* Object.entries(filters).forEach(...) of executeView, from entry i on
applyAllowedFilters(query, allowedFilters, filters, i) ==
  IF i > Len(filters) THEN query
  ELSE applyAllowedFilters(
         IF Includes(allowedFilters, filters[i].key)
            /\ filters[i].value.t \notin {"undefined", "null"}
         THEN Append(query, FieldCall("eq", filters[i].key, filters[i].value))
         ELSE query,
         allowedFilters, filters, i + 1)

\* executeView executing the query a second time
executeViewTwice(viewDefinition, filters, options) ==
  LET joinDefinition == viewDefinition.join_definition
  IN IF Len(joinDefinition) = 0 THEN Thrown(<<>>, TypeError)
     ELSE LET base == <<TextCall("from", joinDefinition[1].fromTable), TextCall("select", Undef)>>
              joined == applyJoins(base, joinDefinition, 1)
              allowedFilters == IF viewDefinition.hasAllowed THEN viewDefinition.allowed_filters
                                ELSE <<>>
          IN IF Failed(joined) THEN joined
             ELSE Returned(order(paginate(
                    applyAllowedFilters(joined.q, allowedFilters, filters, 1), options), options)
                    \o <<Await, Await>>)

executeView(viewDefinition, filters, options) ==
  LET joinDefinition == viewDefinition.join_definition
  IN IF Len(joinDefinition) = 0 THEN Thrown(<<>>, TypeError)
     ELSE LET base == <<TextCall("from", joinDefinition[1].fromTable), TextCall("select", Undef)>>
              joined == applyJoins(base, joinDefinition, 1)
              allowedFilters == IF viewDefinition.hasAllowed THEN viewDefinition.allowed_filters
                                ELSE <<>>
          IN IF Failed(joined) THEN joined
             ELSE Returned(Append(order(paginate(
                    applyAllowedFilters(joined.q, allowedFilters, filters, 1), options), options),
                    Await))

\* getViewDefinition up to its execution: dataRepository.select of the row
getViewDefinition(viewId) ==
  select("view_definitions", "*", <<[key |-> "id", value |-> StrV(viewId)]>>, NoOptions)

\* getViewDefinition after the execution
definitionFetched(viewId, response) ==
  IF response.error # "" THEN Rejected(DatabaseError(response.error))
  ELSE IF response.count = 0 THEN Rejected(ViewNotFound(viewId))
  ELSE Resolved(response.count)

(***************************************************************************)
(* request-parser.js, router.js and the data controller                    *)
(***************************************************************************)
\* the text matches \w+
IsWord(text) ==
  LET WordCharacters == "abcdefghijklmnopqrstuvwxyzABCDEFGHIJKLMNOPQRSTUVWXYZ0123456789_"
  IN /\ Len(text) > 0
     /\ \A i \in 1..Len(text) :
          \E j \in 1..Len(WordCharacters) : SubSeq(text, i, i) = SubSeq(WordCharacters, j, j)
\* path.match(/^\/api\/data\/(\w+)$/)
MatchesTable(path) ==
  Len(path) = 4 /\ path[1] = "" /\ path[2] = "api" /\ path[3] = "data" /\ IsWord(path[4])
\* path.match(/^\/api\/data\/(\w+)\/(\w+)$/)
MatchesRecord(path) ==
  /\ Len(path) = 5 /\ path[1] = "" /\ path[2] = "api" /\ path[3] = "data"
  /\ IsWord(path[4]) /\ IsWord(path[5])

\* a parsed body is the text of its value; !data holds of these
FalsyBodies == {"null", "false", "0"}
Parsed(body) == [body |-> body, err |-> NoError]
InvalidJSON == AppError("Invalid JSON in request body", 400, "Request Parser")
\* JSON.parse on the texts of the model
JSONparse(data) ==
  IF data = "{" THEN [body |-> "", err |-> InvalidJSON] ELSE Parsed(data)
\* the object built from the form data name=Ann
formData(data) == IF data = "" THEN "{}" ELSE "{\"name\":\"Ann\"}"
parseRequestBody(req) ==
  CASE req.contentType = "application/json" ->
         IF req.data = "" THEN Parsed("{}") ELSE JSONparse(req.data)
    [] req.contentType = "application/x-www-form-urlencoded" -> Parsed(formData(req.data))
    [] OTHER -> Parsed("{}")

BodyRequired == AppError("Request body is required", 400, "Data Controller")
RecordNotFound(tableName, id) ==
  AppError("Record not found in " \o tableName \o " with id " \o id, 404, "Data Controller")
NotFound == [name |-> "", message |-> "Not Found", statusCode |-> 404, context |-> ""]

\* the filters { id } with id undefined
idFilterUndefined(id) == <<[key |-> "id", value |-> UndefV]>>

\* the filters { id } handed to the repository by getById, update and delete
idFilter(id) == <<[key |-> "id", value |-> StrV(id)]>>

\* the route taken by handleRequest
Route(req) ==
  CASE MatchesTable(req.path) /\ req.method = "GET" -> "getAll"
    [] MatchesTable(req.path) /\ req.method = "POST" -> "create"
    [] MatchesRecord(req.path) /\ req.method = "GET" -> "getById"
    [] MatchesRecord(req.path) /\ req.method = "PUT" -> "update"
    [] MatchesRecord(req.path) /\ req.method = "DELETE" -> "delete"
    [] OTHER -> "none"

InvalidFilterJSON == AppError("Invalid filter JSON", 400, "Data Controller")
StatusActiveJSON == "{\"field\":\"status\",\"operator\":\"=\",\"value\":\"active\"}"
StatusBetweenJSON == "{\"field\":\"status\",\"operator\":\"between\",\"value\":\"active\"}"
\* JSON.parse(query.filter) on the texts of the model: the tree, or the
\* error of the catch block
parseFilter(text) ==
  CASE text = StatusActiveJSON -> [filter |-> StatusActive, err |-> NoError]
    [] text = StatusBetweenJSON -> [filter |-> StatusBetween, err |-> NoError]
    [] text = "null" -> [filter |-> NullNode, err |-> NoError]
    [] OTHER -> [filter |-> NullNode, err |-> InvalidFilterJSON]

\* the options getAll hands to the repository: page and pageSize as they
\* came, ascending as the boolean query.ascending !== 'false'
queryOptions(query) ==
  [page |-> query.page, pageSize |-> query.pageSize, orderBy |-> query.orderBy,
   ascending |-> BoolV(query.ascending # "false")]

\* getAll up to its await: the query built, or the error thrown before
getAll(tableName, query) ==
  LET parsed == IF Truthy(query.filter) THEN parseFilter(query.filter)
                ELSE [filter |-> NullNode, err |-> NoError]
      options == queryOptions(query)
  IN IF parsed.err # NoError THEN Thrown(<<>>, parsed.err)
     ELSE IF ~parsed.filter.isNull
       THEN selectWithFilter(tableName, "*", parsed.filter, options)
     ELSE select(tableName, "*", query.rest, options)

\* the routes of handleRequest other than the listing of a table, and the
\* controller called, up to the await of the repository: the query built,
\* or the response written without one
handleDataRequest(req) ==
  LET parsed == IF req.method \in {"POST", "PUT", "PATCH"} THEN parseRequestBody(req)
                ELSE Parsed(Undef)
      data == parsed.body
      tableName == req.path[4]
      id == req.path[5]
      route == Route(req)
      answered(statusCode, err) == [q |-> <<>>, err |-> err, statusCode |-> statusCode]
      called(built) == [q |-> built.q, err |-> NoError, statusCode |-> 0]
  IN IF parsed.err # NoError THEN answered(500, parsed.err)
     ELSE CASE route = "create" ->
                 IF data \in FalsyBodies THEN answered(500, BodyRequired)
                 ELSE called(insert(tableName, data))
            [] route = "getById" -> called(select(tableName, "*", idFilter(id), NoOptions))
            [] route = "update" ->
                 IF data \in FalsyBodies THEN answered(500, BodyRequired)
                 ELSE called(update(tableName, data, idFilter(id)))
            [] route = "delete" -> called(delete(tableName, idFilter(id)))
            [] OTHER -> answered(404, NotFound)

\* handleRequest and the controller it calls, up to the await of the
\* repository; an error thrown by getAll is answered by handleHttpError
handleRequest(req) ==
  IF Route(req) = "getAll"
  THEN [q |-> getAll(req.path[4], req.query).q,
        err |-> getAll(req.path[4], req.query).err,
        statusCode |-> IF Failed(getAll(req.path[4], req.query)) THEN 500 ELSE 0]
  ELSE handleDataRequest(req)

\* the rest of the controller, from the answer of the data service on:
\* handleHttpError is called without a status and answers 500
respond(req, response) ==
  LET thrown == IF response.error # "" THEN DatabaseError(response.error)
                ELSE IF Route(req) \notin {"create", "getAll"} /\ response.count = 0
                  THEN RecordNotFound(req.path[4], req.path[5])
                ELSE NoError
  IN IF thrown # NoError THEN Responded(500, thrown)
     ELSE Responded(IF Route(req) = "create" THEN 201 ELSE 200, NoError)

(***************************************************************************)
(* The inputs of the model                                                 *)
(***************************************************************************)
Fields == {"status", "role"}
MapValues == {StrV("active"), StrV("True"), StrV("false"), NullV, UndefV}
Entry(k, v) == [key |-> k, value |-> v]
\* flat equality maps, as the ordered entries of the object
FilterMaps ==
  {<<>>}
  \cup {<<Entry(k, v)>> : k \in Fields, v \in MapValues}
  \cup {<<Entry(k[1], v1), Entry(k[2], v2)>> :
          k \in {kk \in Fields \X Fields : kk[1] # kk[2]}, v1 \in MapValues, v2 \in MapValues}
IdMaps == {<<Entry("id", StrV("42"))>>}

PageValues == {Absent} \cup {Number(n) : n \in (0 - 1)..MaxPage}
PageSizeValues == {Absent} \cup {Number(n) : n \in (0 - 1)..MaxPageSize} \cup {Number(10)}
Orderings ==
  {<<Undef, UndefV>>, <<"name", UndefV>>, <<"name", BoolV(FALSE)>>, <<"name", BoolV(TRUE)>>}
Options ==
  {[page |-> p, pageSize |-> ps, orderBy |-> o[1], ascending |-> o[2]] :
     p \in PageValues, ps \in PageSizeValues, o \in Orderings}

\* the filter trees handed to selectWithFilter
FacadeTrees ==
  {NullNode, ScenarioTree, StatusBetween, Group("xor", <<RoleAdmin, RoleModerator>>),
   Group("Or", <<RoleAdmin, StatusBetween>>), Group("OR", <<RoleAdmin, NullNode>>)}
  \cup {Condition(f, "=", v) : f \in Fields, v \in MapValues \ {NullV, UndefV}}

JoinTypes == {"left", "Inner", "RIGHT", "right", "outer"}
UsersTasks(joinType) == JoinSpec("users", "id", joinType, "tasks", "user_id")
TasksComments(joinType) == JoinSpec("tasks", "id", joinType, "comments", "task_id")
JoinChains ==
  {<<UsersTasks(a)>> : a \in JoinTypes}
  \cup {<<UsersTasks(a), TasksComments(b)>> : a \in JoinTypes, b \in JoinTypes}
\* the records of view_definitions
ViewDefinitions ==
  {ViewDefinition(j, TRUE, a, TRUE) : j \in JoinChains, a \in {<<"tasks.status">>, <<"status">>}}
  \cup {ViewDefinition(<<UsersTasks("left")>>, FALSE, <<>>, FALSE)}
ViewFilterMaps ==
  {<<>>, <<Entry("status", StrV("done"))>>, <<Entry("tasks.status", StrV("done"))>>,
   <<Entry("status", StrV("done")), Entry("secret", StrV("x"))>>}
ViewIds == {"active_users"}

\* the requests: the routes of a record and of a table, and the listing of a
\* table with a query string
Methods == {"GET", "POST", "PUT", "PATCH", "DELETE"}
Paths ==
  {<<"", "api", "data", "users">>, <<"", "api", "data", "users", "42">>,
   <<"", "api", "data", "users", "undefined">>, <<"", "api", "data", "users", "">>,
   <<"", "api", "data", "users", "4-2">>, <<"", "api", "data", "", "42">>,
   <<"", "api", "data", "users", "42", "">>}
Bodies ==
  {<<"application/json", "{\"name\":\"Ann\"}">>, <<"application/json", "">>,
   <<"application/json", "null">>, <<"application/json", "{">>,
   <<"application/x-www-form-urlencoded", "name=Ann">>, <<"", "">>}
\* page and pageSize of a query string: absent, or the decimal text of a
\* positive integer
PageTexts == {Absent} \cup {Text(n) : n \in 1..MaxPage}
PageSizeTexts == {Absent} \cup {Text(n) : n \in 1..MaxPageSize} \cup {Text(10)}
FilterTexts == {Undef, "", StatusActiveJSON, StatusBetweenJSON, "null", "{"}
Queries ==
  {Query(p, ps, o, a, f, r) :
     p \in PageTexts, ps \in PageSizeTexts, o \in {Undef, "name"}, a \in {Undef, "false"},
     f \in FilterTexts, r \in {<<>>, <<Entry("status", StrV("active"))>>}}
Requests ==
  {Request(method, path, body[1], body[2]) : method \in Methods, path \in Paths, body \in Bodies}
  \cup {[Request("GET", <<"", "api", "data", "users">>, "", "") EXCEPT !.query = query] :
          query \in Queries}

\* what the data service answers to an execution
NoRows == [error |-> "", count |-> 0, view |-> NoView]
Rows == [error |-> "", count |-> 1, view |-> NoView]
ServiceError == [error |-> "permission denied", count |-> 0, view |-> NoView]
Responses == {NoRows, Rows, ServiceError}
DefinitionResponses ==
  {NoRows, ServiceError} \cup {[error |-> "", count |-> 1, view |-> v] : v \in ViewDefinitions}

(***************************************************************************)
(* The operations of the repository and of the view engine                 *)
(***************************************************************************)
Init ==
  /\ pc = "idle"
  /\ op = ""
  /\ input = NoInput
  /\ log = <<>>
  /\ result = Pending
  /\ answers = <<>>
  /\ Running

Callable == pc = "idle"

\* a handler that executes what it has built when the building has thrown
StartExecuting(name, args, built) ==
  /\ op' = name
  /\ input' = args
  /\ log' = IF Failed(built) THEN Append(built.q, Await) ELSE built.q
  /\ pc' = "awaiting" /\ result' = Pending
  /\ answers' = <<>>
  /\ UNCHANGED process

\* the handler runs up to its await, or throws before it
Start(name, args, built) ==
  /\ op' = name
  /\ input' = args
  /\ log' = built.q
  /\ IF Failed(built)
     THEN pc' = "done" /\ result' = Rejected(built.err)
     ELSE pc' = "awaiting" /\ result' = Pending
  /\ answers' = <<>>
  /\ UNCHANGED process

Select ==
  /\ Callable
  /\ \E filters \in FilterMaps, options \in Options :
    Start("select", [NoInput EXCEPT !.table = "users", !.filters = filters, !.options = options],
          select("users", "*", filters, options))

SelectWithFilter ==
  /\ Callable
  /\ \E filterObject \in FacadeTrees, options \in Options :
    Start("selectWithFilter",
          [NoInput EXCEPT !.table = "users", !.filterObject = filterObject, !.options = options],
          selectWithFilter("users", "*", filterObject, options))

Insert ==
  /\ Callable
  /\ Start("insert", [NoInput EXCEPT !.table = "users"], insert("users", "row"))

Update ==
  /\ Callable
  /\ \E filters \in FilterMaps \cup IdMaps :
    Start("update", [NoInput EXCEPT !.table = "users", !.filters = filters],
          update("users", "row", filters))

Delete ==
  /\ Callable
  /\ \E filters \in FilterMaps \cup IdMaps :
    Start("delete", [NoInput EXCEPT !.table = "users", !.filters = filters],
          delete("users", filters))

GetViewDefinition ==
  /\ Callable
  /\ \E viewId \in ViewIds :
    Start("getViewDefinition", [NoInput EXCEPT !.table = viewId], getViewDefinition(viewId))

ExecuteView ==
  /\ Callable
  /\ \E viewDefinition \in ViewDefinitions, filters \in ViewFilterMaps, options \in Options :
    Start("executeView",
          [NoInput EXCEPT !.viewDefinition = viewDefinition, !.filters = filters,
                          !.options = options],
          executeView(viewDefinition, filters, options))

\* runView up to the await of getViewDefinition
RunView ==
  /\ Callable
  /\ \E viewId \in ViewIds, filters \in ViewFilterMaps, options \in Options :
    /\ op' = "runView"
    /\ input' = [NoInput EXCEPT !.table = viewId, !.filters = filters, !.options = options]
    /\ log' = getViewDefinition(viewId).q
    /\ pc' = "awaitingDefinition"
    /\ result' = Pending
    /\ answers' = <<>>
    /\ UNCHANGED process

\* handleRequest up to the await of the repository call of the controller
HandleRequest ==
  /\ Callable
  /\ \E req \in Requests :
    LET routed == handleRequest(req)
    IN /\ op' = "handleRequest"
       /\ input' = [NoInput EXCEPT !.request = req]
       /\ log' = routed.q
       /\ IF routed.statusCode # 0
          THEN pc' = "done" /\ result' = Responded(routed.statusCode, routed.err)
          ELSE pc' = "awaiting" /\ result' = Pending
       /\ answers' = <<>>
       /\ UNCHANGED process

\* runView from the answer of the data service to the fetch of the
\* definition up to the await of executeView, or to the error thrown
RunViewResumes ==
  /\ pc = "awaitingDefinition"
  /\ \E response \in DefinitionResponses :
    /\ LET fetched == definitionFetched(input.table, response)
           built == executeView(response.view, input.filters, input.options)
       IN IF fetched.state = "thrown"
          THEN /\ pc' = "done" /\ result' = fetched
               /\ UNCHANGED <<input, log>>
          ELSE /\ input' = [input EXCEPT !.viewDefinition = response.view]
               /\ log' = log \o built.q
               /\ IF Failed(built)
                  THEN pc' = "done" /\ result' = Rejected(built.err)
                  ELSE pc' = "awaiting" /\ result' = Pending
    /\ answers' = Append(answers, response)
    /\ UNCHANGED op
    /\ UNCHANGED process

\* the rest of a handler, from the answer of the data service to its
\* execution
QuerySettles ==
  /\ pc = "awaiting"
  /\ \E response \in Responses :
    /\ result' = CASE op \in {"executeView", "runView"} -> settle(response, "View Engine")
                   [] op = "getViewDefinition" -> definitionFetched(input.table, response)
                   [] op = "handleRequest" -> respond(input.request, response)
                   [] OTHER -> settle(response, "Database")
    /\ pc' = "done"
    /\ answers' = Append(answers, response)
    /\ UNCHANGED <<op, input, log>>
    /\ UNCHANGED process

\* the caller has the outcome; the next call starts from a fresh query
Return ==
  /\ pc = "done"
  /\ pc' = "idle"
  /\ op' = ""
  /\ input' = NoInput
  /\ log' = <<>>
  /\ result' = Pending
  /\ answers' = <<>>
  /\ UNCHANGED process

Next ==
  \/ Select
  \/ SelectWithFilter
  \/ Insert
  \/ Update
  \/ Delete
  \/ GetViewDefinition
  \/ ExecuteView
  \/ RunView
  \/ RunViewResumes
  \/ HandleRequest
  \/ QuerySettles
  \/ Return

Spec == Init /\ [][Next]_vars

(***************************************************************************)
(* The start of the process                                                *)
(***************************************************************************)
StartupInit ==
  /\ pc = "loading"
  /\ op = "startup"
  /\ input = NoInput
  /\ log = <<>>
  /\ result = Pending
  /\ answers = <<>>
  /\ supabaseInstance = null
  /\ requireStack = <<Frame("app.js")>>
  /\ requireCache = {"app.js"}
  /\ env \in Environments

\* the next require statement of the module being loaded
Require ==
  /\ pc = "loading"
  /\ requireStack # <<>>
  /\ LET top == requireStack[Len(requireStack)]
         advanced == [requireStack EXCEPT ![Len(requireStack)].next = top.next + 1]
     IN /\ top.next <= Len(Requires(top.module))
        /\ LET module == Requires(top.module)[top.next]
           IN IF module \in requireCache
              THEN requireStack' = advanced /\ UNCHANGED requireCache
              ELSE /\ requireStack' = Append(advanced, Frame(module))
                   /\ requireCache' = requireCache \cup {module}
  /\ UNCHANGED <<pc, op, input, log, result, answers, supabaseInstance, env>>

\* the code of the module being loaded that follows its require statements:
\* the constructor call of a singleton, initApp() of app.js. An error
\* thrown while a module loads is caught nowhere and ends the process;
\* initApp catches its own and exits.
RunModule ==
  /\ pc = "loading"
  /\ requireStack # <<>>
  /\ LET top == requireStack[Len(requireStack)]
         returned == SubSeq(requireStack, 1, Len(requireStack) - 1)
     IN /\ top.next > Len(Requires(top.module))
        /\ CASE top.module \in Singletons ->
                  LET got == getSupabaseClient(supabaseInstance)
                  IN IF got.err # NoError
                     THEN /\ pc' = "crashed"
                          /\ result' = Rejected(got.err)
                          /\ requireStack' = <<>>
                          /\ UNCHANGED supabaseInstance
                     ELSE /\ requireStack' = returned
                          /\ UNCHANGED <<pc, result, supabaseInstance>>
             [] top.module = "app.js" ->
                  LET made == initSupabase(supabaseInstance, env.SUPABASE_URL, env.SUPABASE_KEY)
                  IN /\ supabaseInstance' = made.instance
                     /\ requireStack' = returned
                     /\ IF made.err # NoError
                        THEN pc' = "exited" /\ result' = Rejected(made.err)
                        ELSE pc' = "listening" /\ result' = Resolved(0)
             [] OTHER ->
                  /\ requireStack' = returned
                  /\ UNCHANGED <<pc, result, supabaseInstance>>
  /\ UNCHANGED <<op, input, log, answers, requireCache, env>>

StartupNext ==
  \/ Require
  \/ RunModule

StartupSpec == StartupInit /\ [][StartupNext]_vars

(***************************************************************************)
(* Properties of the filter engine (checked under FilterSpec)              *)
(***************************************************************************)
FilterDone == op = "applyFilter" /\ pc = "done"
\* the builder calls made by the operation on top of the base query
Emitted == SubSeq(log, 3, Len(log))
Tree == input.filterObject
HasLogic(n, l) == IsGroup(n) /\ toUpperCase(n.logic) = l
IsValidCondition(n) == IsCondition(n) /\ n.value.t # "undefined"

Occurrences(calls, c) == Cardinality({i \in DOMAIN calls : calls[i] = c})
SameCalls(a, b) ==
  /\ Len(a) = Len(b)
  /\ \A i \in DOMAIN a : Occurrences(a, a[i]) = Occurrences(b, a[i])

\* the calls of child i, i+1, ... each applied to a query of its own, up to
\* the first child that fails
RECURSIVE ChildCalls(_, _)
ChildCalls(filters, i) ==
  IF i > Len(filters) THEN <<>>
  ELSE LET r == applyFilter(<<>>, filters[i])
       IN IF Failed(r) THEN r.q ELSE r.q \o ChildCalls(filters, i + 1)

RECURSIVE FirstError(_, _)
FirstError(filters, i) ==
  IF i > Len(filters) THEN NoError
  ELSE LET r == applyFilter(<<>>, filters[i])
       IN IF Failed(r) THEN r.err ELSE FirstError(filters, i + 1)

Permuted(filters, p) == [i \in DOMAIN filters |-> filters[p[i]]]

\* C3: an AND group of two or more children emits the calls of its children
\* in array order, one child after the other (a failing child ends the
\* operation with its error); a permutation of the children succeeds exactly
\* when the group does and then emits the same calls, in the permuted order.
C3_AndInArrayOrder ==
  (FilterDone /\ HasLogic(Tree, "AND") /\ Len(Tree.filters) >= 2) =>
    /\ Emitted = ChildCalls(Tree.filters, 1)
    /\ result.err = FirstError(Tree.filters, 1)
    /\ \A p \in Permutations(DOMAIN Tree.filters) :
         LET r == applyFilter(BaseQuery("users", "*"), Group(Tree.logic, Permuted(Tree.filters, p)))
             calls == SubSeq(r.q, 3, Len(r.q))
         IN /\ Failed(r) <=> result.state = "thrown"
            /\ ~Failed(r) =>
                 /\ SameCalls(calls, Emitted)
                 /\ calls = ChildCalls(Permuted(Tree.filters, p), 1)

C3_Witness ==
  /\ FilterDone /\ HasLogic(Tree, "AND") /\ Len(Tree.filters) >= 2
  /\ result.state = "returned"
  /\ Len(Emitted) >= 2
  /\ Emitted[1] # Emitted[2]
  /\ IsGroup(Tree.filters[2])

\* the text handed to `or` for a sequence of Conditions
RECURSIVE OrText(_, _)
OrText(filters, i) ==
  IF i > Len(filters) THEN ""
  ELSE filters[i].field \o "." \o mapOperator(filters[i].operator).s \o "."
       \o formatValue(filters[i].value).s
       \o (IF i < Len(filters) THEN "," \o OrText(filters, i + 1) ELSE "")

\* C4: an OR group of two or more Conditions makes one call of `or` and no
\* other call; its argument is the children's field.token.value texts joined
\* by commas in array order. The scenario tree gives eq(status, 'active') and
\* then or('role.eq."admin",role.eq."moderator"').
C4_OrIsOneCall ==
  /\ (FilterDone /\ HasLogic(Tree, "OR") /\ Len(Tree.filters) >= 2
        /\ \A i \in DOMAIN Tree.filters : IsValidCondition(Tree.filters[i])) =>
       /\ result.state = "returned"
       /\ Emitted = <<TextCall("or", OrText(Tree.filters, 1))>>
  /\ (FilterDone /\ Tree = ScenarioTree) =>
       /\ result.state = "returned"
       /\ Emitted = <<FieldCall("eq", "status", StrV("active")),
                      TextCall("or", "role.eq.\"admin\",role.eq.\"moderator\"")>>

C4_Witness ==
  /\ FilterDone /\ Tree = ScenarioTree
  /\ Len(Emitted) = 2 /\ Emitted[2].m = "or"

ClosedOperators ==
  {"=", "<>", "!=", ">", ">=", "<", "<=", "LIKE", "ILIKE", "IN", "IS", "IS NOT",
   "IS NULL", "IS NOT NULL"}
IsUnsupported(n) == IsCondition(n) /\ toUpperCase(n.operator) \notin ClosedOperators

\* the Condition sits at the root, under an AND group (after children that
\* apply without error), or in an OR group of two or more children
UnsupportedAt(n) ==
  \/ IsUnsupported(n)
  \/ /\ HasLogic(n, "AND") /\ Len(n.filters) >= 2
     /\ \E i \in DOMAIN n.filters :
          /\ IsUnsupported(n.filters[i])
          /\ \A j \in 1..(i - 1) : ~Failed(applyFilter(<<>>, n.filters[j]))
  \/ /\ HasLogic(n, "OR") /\ Len(n.filters) >= 2
     /\ \E i \in DOMAIN n.filters : IsUnsupported(n.filters[i])

\* the unsupported operators of the node and of its children
UnsupportedOperators(n) ==
  {c.operator : c \in {d \in {n} \cup {n.filters[i] : i \in DOMAIN n.filters} : IsUnsupported(d)}}

\* no call names the operator, as a method or inside the text of an `or`
RECURSIVE Contains(_, _)
Contains(text, word) ==
  IF Len(text) < Len(word) THEN FALSE
  ELSE IF SubSeq(text, 1, Len(word)) = word THEN TRUE
  ELSE Contains(SubSeq(text, 2, Len(text)), word)

\* C5: a Condition whose operator is outside the closed set makes applyFilter
\* fail with UnsupportedOperator wherever it sits, and no call carries the
\* operator.
C5_UnsupportedOperatorAlwaysFails ==
  (FilterDone /\ UnsupportedAt(Tree)) =>
    /\ result.state = "thrown"
    /\ \E o \in UnsupportedOperators(Tree) : result.err = UnsupportedOperator(o)
    /\ \A i \in DOMAIN Emitted : \A o \in UnsupportedOperators(Tree) :
         Emitted[i].m # o /\ ~Contains(Emitted[i].s1, o)

\* C6: a Group whose logic is outside {AND, OR} makes applyFilter fail with
\* UnsupportedLogic, whatever the number of its children.
C6_UnsupportedLogicAlwaysFails ==
  (FilterDone /\ IsGroup(Tree) /\ toUpperCase(Tree.logic) \notin {"AND", "OR"}) =>
    /\ result.state = "thrown"
    /\ result.err = UnsupportedLogic(Tree.logic)

\* C7: a null node and a Group with no children leave the query as it was; a
\* Group with one child makes the calls, or raises the error, of that child
\* applied directly.
C7_DegenerateInputs ==
  /\ (FilterDone /\ (Tree.isNull \/ (IsGroup(Tree) /\ Len(Tree.filters) = 0))) =>
       /\ result.state = "returned"
       /\ Emitted = <<>>
  /\ (FilterDone /\ IsGroup(Tree) /\ Len(Tree.filters) = 1) =>
       LET direct == applyFilter(BaseQuery("users", "*"), Tree.filters[1])
       IN /\ log = direct.q
          /\ result.err = direct.err
          /\ result.state = IF Failed(direct) THEN "thrown" ELSE "returned"

C7_Witness ==
  /\ FilterDone /\ IsGroup(Tree) /\ Len(Tree.filters) = 1
  /\ IsGroup(Tree.filters[1]) /\ Len(Tree.filters[1].filters) = 1
  /\ HasLogic(Tree, "OR")
  /\ Len(Emitted) = 1 /\ Emitted[1].m = "eq"

\* the node with the scalar value of every IN Condition in it, at the root or
\* among the children of a group, wrapped in a one-element array
WrapIn(n) ==
  IF IsCondition(n) /\ toUpperCase(n.operator) = "IN" /\ n.value.t # "array"
  THEN [n EXCEPT !.value = ArrV(<<n.value>>)]
  ELSE n
WrapChildren(n) == [n EXCEPT !.filters = [i \in DOMAIN n.filters |-> WrapIn(n.filters[i])]]
IsScalarIn(n) ==
  IsCondition(n) /\ toUpperCase(n.operator) = "IN" /\ n.value.t \in {"string", "number", "boolean"}

\* C8: an IN Condition generates the same condition for the scalar v and for
\* [v], when dispatched directly and when encoded as a child of an OR group.
C8_InScalarIsSingleton ==
  /\ (FilterDone /\ IsScalarIn(Tree)) =>
       log = applyFilter(BaseQuery("users", "*"), WrapIn(Tree)).q
  /\ (FilterDone /\ HasLogic(Tree, "OR") /\ Len(Tree.filters) >= 2
        /\ (\A i \in DOMAIN Tree.filters : IsValidCondition(Tree.filters[i]))
        /\ (\E i \in DOMAIN Tree.filters : IsScalarIn(Tree.filters[i]))) =>
       log = applyFilter(BaseQuery("users", "*"), WrapChildren(Tree)).q

(***************************************************************************)
(* Properties of the repository and of the view engine (checked under Spec)*)
(***************************************************************************)
Awaits(calls) == Cardinality({i \in DOMAIN calls : calls[i] = Await})
FacadeOps == {"select", "selectWithFilter", "insert", "update", "delete"}
ViewOps == {"getViewDefinition", "executeView", "runView"}
Started == pc \in {"awaiting", "awaitingDefinition", "done"}
ConditionMethods ==
  {"eq", "neq", "gt", "gte", "lt", "lte", "like", "ilike", "in", "is", "not", "or"}

\* the filter tree of selectWithFilter fails to apply
FilterFails ==
  op = "selectWithFilter" /\ Failed(applyFilter(<<>>, input.filterObject))

\* the stage of the call at position i of the log: the start of the query,
\* its conditions, its range, its order, the read-back of a mutation, the
\* execution
Stage(calls, i) ==
  CASE calls[i].m \in ConditionMethods -> 1
    [] calls[i].m = "range" -> 2
    [] calls[i].m = "order" -> 3
    [] calls[i].m = "select" /\ i > 2 -> 4
    [] calls[i] = Await -> 5
    [] OTHER -> 0

\* C1: a repository operation whose query building completes executes the
\* query once; every builder call (conditions, then range, then order) comes
\* before the execution, and nothing is executed again after the answer of
\* the service, be it data or an error.
C1_ExecutedExactlyOnce ==
  (op \in FacadeOps /\ Started /\ ~FilterFails) =>
    /\ Awaits(log) = 1
    /\ log[Len(log)] = Await
    /\ \A i \in DOMAIN log : \A j \in DOMAIN log :
         i < j => Stage(log, i) <= Stage(log, j)

C1_Witness ==
  /\ op = "selectWithFilter" /\ pc = "done"
  /\ result = Rejected(DatabaseError("permission denied"))
  /\ Awaits(log) = 1
  /\ \E i \in DOMAIN log : log[i].m = "or"
  /\ \E i \in DOMAIN log : log[i].m = "range"
  /\ \E i \in DOMAIN log : log[i].m = "order"

\* C2 as stated: every operation of the view engine, runView included, makes
\* at most one round trip.
C2_AtMostOneRoundTrip ==
  op \in ViewOps => Awaits(log) <= 1

\* C2: getViewDefinition and executeView make at most one round trip per
\* call; runView makes at most two, the fetch of the definition and then the
\* execution of the view, and makes both whenever the definition is found
\* and the query of the view is built.
C2_RoundTripsOfViewOperations ==
  /\ op \in {"getViewDefinition", "executeView"} => Awaits(log) <= 1
  /\ op = "runView" =>
       /\ Awaits(log) <= 2
       /\ (pc = "awaiting" \/ result.state = "returned") => Awaits(log) = 2

C2_Witness ==
  /\ op = "runView" /\ pc = "done"
  /\ result.state = "returned"
  /\ Awaits(log) = 2
  /\ log[Len(log)] = Await

IsScalarEquality(n) ==
  IsCondition(n) /\ n.operator = "=" /\ n.value.t \in {"string", "number", "boolean"}

\* C9: selectWithFilter with the Condition f = v makes the calls of select
\* with the map {f: v}: the same eq(f, v') with the same coerced v'.
C9_SameEqualityOnBothPaths ==
  (op = "selectWithFilter" /\ Started /\ IsScalarEquality(input.filterObject)) =>
    log = select(input.table, "*",
                 <<Entry(input.filterObject.field, input.filterObject.value)>>,
                 input.options).q

RangeCalls(calls) == {i \in DOMAIN calls : calls[i].m = "range"}
\* the operation has gone past its pagination step
Paginated ==
  \/ op \in {"select", "selectWithFilter", "executeView"} /\ Started /\ Awaits(log) = 1
  \/ op = "runView" /\ Awaits(log) = 2
PositivePage ==
  /\ input.options.page.t = "number" /\ input.options.page.n > 0
  /\ input.options.pageSize.t = "number" /\ input.options.pageSize.n > 0

\* C10: with positive integers page and pageSize, select, selectWithFilter and
\* executeView make one range call, from (page-1)*pageSize to
\* page*pageSize-1, that is pageSize rows; page 2 of size 10 is [10, 19].
C10_RangeOfPage ==
  (Paginated /\ PositivePage) =>
    /\ Cardinality(RangeCalls(log)) = 1
    /\ \A i \in RangeCalls(log) :
         /\ log[i].n1 = (input.options.page.n - 1) * input.options.pageSize.n
         /\ log[i].n2 = input.options.page.n * input.options.pageSize.n - 1
         /\ log[i].n2 - log[i].n1 + 1 = input.options.pageSize.n
         /\ (input.options.page.n = 2 /\ input.options.pageSize.n = 10) =>
              (log[i].n1 = 10 /\ log[i].n2 = 19)

C10_Witness ==
  /\ op = "executeView" /\ pc = "done"
  /\ input.options.page = Number(2) /\ input.options.pageSize = Number(10)
  /\ \E i \in DOMAIN log : log[i] = RangeCall(10, 19)

(***************************************************************************)
(* Pagination, allow-list and joins of the views, service errors           *)
(***************************************************************************)
\* a page or pageSize that is absent or zero
Missing(x) == x.t = "undefined" \/ (x.t = "number" /\ x.n = 0)
Negative(x) == x.t = "number" /\ x.n < 0

\* C11 (as claimed): select, selectWithFilter and executeView make no range
\* call when page or pageSize is absent, zero or negative.
C11_NoRangeUnlessPositive ==
  (/\ Paginated
   /\ \/ Missing(input.options.page) \/ Negative(input.options.page)
      \/ Missing(input.options.pageSize) \/ Negative(input.options.pageSize))
    => RangeCalls(log) = {}

\* C11 (amended): select, selectWithFilter and executeView make a range call
\* exactly when page and pageSize are both present and non-zero; a negative
\* page or pageSize is not inspected and goes into the range like any number.
C11_RangeUnlessAbsentOrZero ==
  Paginated =>
    /\ (Missing(input.options.page) \/ Missing(input.options.pageSize)) => RangeCalls(log) = {}
    /\ (~Missing(input.options.page) /\ ~Missing(input.options.pageSize)) =>
         /\ Cardinality(RangeCalls(log)) = 1
         /\ \A i \in RangeCalls(log) :
              /\ log[i].n1 = (input.options.page.n - 1) * input.options.pageSize.n
              /\ log[i].n2 = log[i].n1 + input.options.pageSize.n - 1

C11_Witness ==
  /\ op = "select" /\ pc = "done"
  /\ input.options.page = Number(0 - 1) /\ input.options.pageSize = Number(2)
  /\ \E i \in DOMAIN log : log[i] = RangeCall(0 - 4, 0 - 3)

\* the view whose query is being built and executed, and the calls made on
\* that query (runView fetches the definition first)
ViewExecuting ==
  \/ op = "executeView" /\ Started
  \/ op = "runView" /\ input.viewDefinition # NoView
ViewCalls ==
  IF op = "runView" THEN SubSeq(log, Len(getViewDefinition(input.table).q) + 1, Len(log))
  ELSE log
AllowedKeys ==
  IF input.viewDefinition.hasAllowed
  THEN {input.viewDefinition.allowed_filters[i] : i \in DOMAIN input.viewDefinition.allowed_filters}
  ELSE {}
RECURSIVE Restrict(_, _)
\* the entries of a filter map whose keys are in a set, in their order
Restrict(filters, keys) ==
  IF filters = <<>> THEN <<>>
  ELSE (IF Head(filters).key \in keys THEN <<Head(filters)>> ELSE <<>>)
       \o Restrict(Tail(filters), keys)
EqCalls(calls) == {i \in DOMAIN calls : calls[i].m = "eq"}
JoinsFail == Failed(applyJoins(<<>>, input.viewDefinition.join_definition, 1))

\* C12: executeView makes an eq call on a key of the filters only if the key
\* is in allowed_filters (an absent allowed_filters allows nothing); the
\* other keys raise no error and leave the query as it is without them.
C12_OnlyAllowedFilters ==
  ViewExecuting =>
    /\ \A i \in EqCalls(ViewCalls) : ViewCalls[i].s1 \in AllowedKeys
    /\ \A j \in DOMAIN input.filters :
         (input.filters[j].key \in AllowedKeys /\ ~JoinsFail) =>
           \E i \in EqCalls(ViewCalls) :
             ViewCalls[i] = FieldCall("eq", input.filters[j].key, input.filters[j].value)
    /\ ViewCalls = executeView(input.viewDefinition, Restrict(input.filters, AllowedKeys),
                               input.options).q
    /\ result.state = "thrown" =>
         \/ result.err = executeView(input.viewDefinition, <<>>, input.options).err
         \/ answers # <<>> /\ answers[Len(answers)].error # ""

C12_Witness ==
  /\ op = "executeView" /\ pc = "done" /\ result.state = "returned"
  /\ input.viewDefinition.allowed_filters = <<"status">>
  /\ input.filters = <<Entry("status", StrV("done")), Entry("secret", StrV("x"))>>
  /\ Cardinality(EqCalls(log)) = 1
  /\ \E i \in EqCalls(log) : log[i] = FieldCall("eq", "status", StrV("done"))

\* a view that allows tasks.status, called with the filters
\* {status: 'done', secret: 'x'}, once its query is built
StatusScenario ==
  /\ op = "executeView" /\ Started /\ ~JoinsFail
  /\ input.viewDefinition.hasAllowed
  /\ input.viewDefinition.allowed_filters = <<"tasks.status">>
  /\ input.filters = <<Entry("status", StrV("done")), Entry("secret", StrV("x"))>>

\* C13 (as claimed): in that scenario the status filter is applied, as one eq
\* call, and secret is dropped.
C13_ScenarioAppliesStatus ==
  StatusScenario =>
    /\ Cardinality(EqCalls(log)) = 1
    /\ \A i \in EqCalls(log) : log[i].s1 = "status" /\ log[i].val = StrV("done")

\* C13 (amended): in that scenario no filter is applied: status and secret
\* are both absent from the allow-list and are dropped without error; the
\* filters {'tasks.status': 'done'} give the one call eq('tasks.status', 'done').
C13_ScenarioDropsBoth ==
  /\ StatusScenario =>
       /\ EqCalls(log) = {}
       /\ log = executeView(input.viewDefinition, <<>>, input.options).q
       /\ result.state = "thrown" => (answers # <<>> /\ answers[1].error # "")
  /\ (/\ op = "executeView" /\ Started /\ ~JoinsFail
      /\ input.viewDefinition.hasAllowed
      /\ input.viewDefinition.allowed_filters = <<"tasks.status">>
      /\ input.filters = <<Entry("tasks.status", StrV("done"))>>) =>
       /\ Cardinality(EqCalls(log)) = 1
       /\ \A i \in EqCalls(log) : log[i] = FieldCall("eq", "tasks.status", StrV("done"))

C13_Witness ==
  /\ StatusScenario /\ pc = "done" /\ result.state = "returned"
  /\ EqCalls(log) = {}

\* the error kind UnsupportedJoinType: the typed error of executeView for a
\* joinType other than left and inner
IsUnsupportedJoinType(err) ==
  /\ err.name = "AppError" /\ err.statusCode = 400 /\ err.context = "View Engine"
  /\ \/ err.message = "Right joins not supported yet"
     \/ \E joinType \in JoinTypes : err.message = "Unknown join type: " \o joinType
HasRightJoin ==
  \E i \in DOMAIN input.viewDefinition.join_definition :
    input.viewDefinition.join_definition[i].joinType \in {"right", "RIGHT", "Right"}

\* C14: executeView on a view with a JoinSpec of joinType 'right', in any
\* letter case and at any position, fails with UnsupportedJoinType whatever
\* the other JoinSpecs, the filters and the options are, and executes nothing.
C14_RightJoinAlwaysFails ==
  (ViewExecuting /\ HasRightJoin) =>
    /\ pc = "done"
    /\ result.state = "thrown"
    /\ IsUnsupportedJoinType(result.err)
    /\ Awaits(ViewCalls) = 0

C14_Witness ==
  /\ op = "executeView" /\ pc = "done"
  /\ input.viewDefinition.join_definition = <<UsersTasks("Inner"), TasksComments("RIGHT")>>
  /\ input.filters # <<>> /\ input.options.page = Number(2)
  /\ result = Rejected(RightJoinsNotSupported)

\* the data service has answered the execution of the operation's own query
\* with an error
ServiceFailed ==
  /\ \/ op \in FacadeOps \cup {"executeView"} /\ Len(answers) = 1
     \/ op = "runView" /\ Len(answers) = 2
  /\ answers[Len(answers)].error # ""

\* C15: when the data service reports an error for the execution of select,
\* selectWithFilter, insert, update, delete or executeView, the operation
\* throws the typed error with status 400 and the message of the service,
\* and returns no { data, count }.
C15_ServiceErrorIsTyped ==
  ServiceFailed =>
    /\ pc = "done"
    /\ result.state = "thrown"
    /\ result.count = 0
    /\ result.err.name = "AppError"
    /\ result.err.statusCode = 400
    /\ result.err.message = answers[Len(answers)].error
    /\ result.err.context = IF op \in FacadeOps THEN "Database" ELSE "View Engine"

C15_Witness ==
  /\ op = "update" /\ pc = "done"
  /\ answers = <<ServiceError>>
  /\ result = Rejected(AppError("permission denied", 400, "Database"))

\* C19: when the building of the query fails (applyFilter throws in
\* selectWithFilter, executeView meets a joinType it does not support), the
\* operation executes nothing and returns no result: the error is its outcome.
C19_NoExecutionAfterBuildFailure ==
  /\ FilterFails =>
       /\ pc = "done"
       /\ Awaits(log) = 0
       /\ answers = <<>>
       /\ result = Rejected(applyFilter(<<>>, input.filterObject).err)
  /\ (ViewExecuting /\ JoinsFail) =>
       /\ pc = "done"
       /\ Awaits(ViewCalls) = 0
       /\ Len(answers) = (IF op = "runView" THEN 1 ELSE 0)
       /\ result = Rejected(applyJoins(<<>>, input.viewDefinition.join_definition, 1).err)

C19_Witness ==
  /\ op = "selectWithFilter" /\ pc = "done"
  /\ input.filterObject = StatusBetween
  /\ Awaits(log) = 0
  /\ result = Rejected(UnsupportedOperator("between"))

\* the calls of the log that change rows
Mutations(calls) == {i \in DOMAIN calls : calls[i].m \in {"update", "delete"}}

\* C20: an update or delete issued for PUT or DELETE /api/data/:table/:id
\* carries exactly one equality condition, id = the id of the path, a
\* non-empty text, between the mutation and its execution; no request makes
\* the router issue an update or delete without that condition.
C20_RoutedMutationsAreRestricted ==
  (op = "handleRequest" /\ Mutations(log) # {}) =>
    /\ input.request.method \in {"PUT", "DELETE"}
    /\ Len(input.request.path) = 5
    /\ input.request.path[5] # ""
    /\ Cardinality(Mutations(log)) = 1
    /\ Cardinality(EqCalls(log)) = 1
    /\ \A i \in EqCalls(log) :
         /\ log[i] = FieldCall("eq", "id", StrV(input.request.path[5]))
         /\ \A j \in Mutations(log) : j < i
         /\ \A j \in DOMAIN log : log[j] = Await => i < j

C20_Witness ==
  /\ op = "handleRequest" /\ pc = "done"
  /\ input.request.method = "DELETE"
  /\ input.request.path = <<"", "api", "data", "users", "42">>
  /\ log = <<TextCall("from", "users"), TextCall("delete", Undef),
             FieldCall("eq", "id", StrV("42")), TextCall("select", Undef), Await>>
  /\ result = Responded(200, NoError)

(***************************************************************************)
(* Errors and flattening of the OR encoding (checked under FilterSpec)     *)
(***************************************************************************)
\* C16: for every filter tree, applyFilter returns a query or throws the one
\* typed error, with status 400, a message and the context 'Filter Parser';
\* it never throws an untyped runtime error.
C16_OnlyTypedErrors ==
  (FilterDone /\ result.state = "thrown") =>
    /\ result.err.name = "AppError"
    /\ result.err.statusCode = 400
    /\ result.err.message # ""
    /\ result.err.context = "Filter Parser"

\* the children k of the tree, an OR group of two or more children, that
\* are groups of Conditions only
FlatGroupChildren ==
  IF HasLogic(Tree, "OR") /\ Len(Tree.filters) >= 2
  THEN {k \in DOMAIN Tree.filters :
          /\ IsGroup(Tree.filters[k])
          /\ \A j \in DOMAIN Tree.filters[k].filters : IsCondition(Tree.filters[k].filters[j])}
  ELSE {}
\* the tree with the logic of its child k replaced
Relabelled(k, logic) == [Tree EXCEPT !.filters[k].logic = logic]
\* the tree with the children of its child k listed in the place of k
Spliced(k) ==
  [Tree EXCEPT !.filters = SubSeq(Tree.filters, 1, k - 1) \o Tree.filters[k].filters
                           \o SubSeq(Tree.filters, k + 1, Len(Tree.filters))]
\* the outcome of applyFilter on another tree is the outcome reached
SameOutcome(tree) ==
  LET other == applyFilter(BaseQuery("users", "*"), tree)
  IN /\ other.q = log
     /\ other.err = result.err

\* C17: under an OR group of two or more children, a child group of
\* Conditions is flattened: the or string is the same whether the logic of
\* the child is AND or OR, and, the child having Conditions, is the string
\* of the outer group with these Conditions listed in the place of the child.
C17_NestedGroupIsFlattened ==
  FilterDone =>
    \A k \in FlatGroupChildren :
      /\ SameOutcome(Relabelled(k, "AND"))
      /\ SameOutcome(Relabelled(k, "OR"))
      /\ Tree.filters[k].filters # <<>> => SameOutcome(Spliced(k))

C17_Witness ==
  /\ FilterDone
  /\ Tree = Group("OR", <<Group("AND", <<RoleAdmin, RoleModerator>>), StatusActive>>)
  /\ Emitted = <<TextCall("or", "role.eq.\"admin\",role.eq.\"moderator\",status.eq.\"active\"")>>

(***************************************************************************)
(* The start of the process (checked under StartupSpec)                    *)
(***************************************************************************)
\* C18: while app.js and its modules load and initApp runs, no constructor
\* calls getSupabaseClient before initSupabase has set the handle:
\* getSupabaseClient never throws 'Supabase client not initialized' and the
\* process does not end before the server listens.
C18_HandleSetBeforeFirstUse ==
  op = "startup" =>
    /\ pc # "crashed"
    /\ result.err.message # "Supabase client not initialized"

(***************************************************************************)
(* The listing of a table through the router                               *)
(***************************************************************************)
\* a listing GET /api/data/:table whose query has reached its pagination
\* step, with page and pageSize the texts of positive integers
ListingPaginated ==
  /\ op = "handleRequest" /\ Route(input.request) = "getAll"
  /\ Awaits(log) = 1
  /\ input.request.query.page.t = "string" /\ input.request.query.page.n > 0
  /\ input.request.query.pageSize.t = "string" /\ input.request.query.pageSize.n > 0

\* C21: for GET /api/data/:table with page=p and pageSize=s in the query
\* string, with or without a filter, the range applied to the query is
\* [(p-1)*s, p*s-1], the range of the integers p and s; page=2&pageSize=10
\* gives [10, 19].
C21_RangeOfQueryString ==
  ListingPaginated =>
    /\ Cardinality(RangeCalls(log)) = 1
    /\ \A i \in RangeCalls(log) :
         /\ log[i].n1 = (input.request.query.page.n - 1) * input.request.query.pageSize.n
         /\ log[i].n2 = input.request.query.page.n * input.request.query.pageSize.n - 1

====
